---- MODULE Spec2Model ----
(***************************************************************************)
(* A model of rumboost/post_process.py: split_fe_model, bootstrap and      *)
(* assist_model_spec.                                                      *)
(*                                                                         *)
(* Python values are records [kind, items]: kind is the Python type        *)
(* ("list", "tuple", "dict", "int", "str", "None") and items the payload,  *)
(* so that values of different Python types can be compared.               *)
(* Objects (RUMBoost instances) live in a heap, a sequence of records      *)
(* indexed by object identity.                                             *)
(***************************************************************************)
EXTENDS Integers, Sequences, FiniteSets, TLC

(* ------------------------------ bounds ------------------------------- *)
\* longest boosters / rum_structure list of an input model
MaxLen == 4
\* most rows of a dataset given to bootstrap
MaxRows == 2
\* largest num_it given to bootstrap
MaxIt == 2
\* largest seed given to bootstrap
MaxSeed == 1
\* most 32-bit words the generator has given out since its last seeding when
\* the first invocation starts
MaxStart == 2
\* largest num_classes of a model given to assist_model_spec
MaxClasses == 12
\* most utilities in the weights of a model, and most features of one utility
MaxUtil == 2
MaxFeat == 2

(* --------------------------- Python values --------------------------- *)
PyNone == [kind |-> "None", items |-> <<>>]
PyList(s) == [kind |-> "list", items |-> s]
PyTuple(s) == [kind |-> "tuple", items |-> s]
PyDict(s) == [kind |-> "dict", items |-> s]
PyInt(n) == [kind |-> "int", items |-> <<n>>]
PyStr(s) == [kind |-> "str", items |-> <<s>>]

\* sequences over S of length 0..n
SeqsUpTo(S, n) == UNION {[1..k -> S] : k \in 0..n}

(* ------------------------------ state -------------------------------- *)
VARIABLES
    heap,       \* RUMBoost objects by identity (1..Len(heap))
    splitPc,    \* split_fe_model: "ready", "returned" or "raised"
    splitRet,   \* the returned pair of object identities, <<>> before/without return
    splitErr,   \* the exception raised, "" if none
    rng,        \* state of the process-wide generator np.random
    index,      \* dataset.index: the row labels of the dataset, in row order
    bs,         \* bootstrap: the frame of each invocation
    asModel,    \* assist_model_spec: the model given
    asPc,       \* "idle", "ready", "loop" or "done"
    ascs,       \* the dictionary ascs
    asPos,      \* how many (i, name) iterations of the loop are over
    asRet       \* the value returned

splitVars == <<heap, splitPc, splitRet, splitErr>>
bsVars == <<rng, index, bs>>
asVars == <<asModel, asPc, ascs, asPos, asRet>>
vars == <<heap, splitPc, splitRet, splitErr, rng, index, bs,
          asModel, asPc, ascs, asPos, asRet>>

(* ------------------------- split_fe_model ---------------------------- *)
\* identity of the model passed to split_fe_model
SrcId == 1

\* isinstance(x, list); the variant is isinstance(x, (list, tuple))
IsListTupleMutant(x) == x.kind \in {"list", "tuple"}
IsList(x) == x.kind = "list"

\* RUMBoost(): a new instance, fields unset
RUMBoostNew ==
    [boosters |-> PyNone, rum_structure |-> PyNone, num_classes |-> PyNone,
     device |-> PyNone, nests |-> PyNone, alphas |-> PyNone]

\* [b for i, b in enumerate(s) if i % 2 == r], i counting from i0
RECURSIVE EnumFilterFrom(_, _, _)
EnumFilterFrom(s, i0, r) ==
    IF s = <<>> THEN <<>>
    ELSE (IF i0 % 2 = r THEN <<Head(s)>> ELSE <<>>) \o EnumFilterFrom(Tail(s), i0 + 1, r)

\* the variant counts from 1, as enumerate(s, 1) would
EnumFilterSwapped(s, r) == EnumFilterFrom(s, 1, r)
EnumFilter(s, r) == EnumFilterFrom(s, 0, r)

\* s[start::2] for a sequence s and start in {0, 1} (0-based start)
SliceStep2(s, start) ==
    [k \in 1..(IF Len(s) > start THEN (Len(s) - start + 1) \div 2 ELSE 0) |->
        s[start + 2 * (k - 1) + 1]]

\* the heap after lines 33-50: two new instances and their six fields each,
\* read from the model m = h[src]; the variant assigns the even boosters to
\* model.boosters instead of attributes_model.boosters
SplitHeapInPlace(h, src) ==
    LET m == h[src]
        a == [RUMBoostNew EXCEPT
                !.rum_structure = PyList(SliceStep2(m.rum_structure.items, 0)),
                !.num_classes = m.num_classes, !.device = m.device,
                !.nests = m.nests, !.alphas = m.alphas]
        s == [RUMBoostNew EXCEPT
                !.boosters = PyList(EnumFilter(m.boosters.items, 1)),
                !.rum_structure = PyList(SliceStep2(m.rum_structure.items, 1)),
                !.num_classes = m.num_classes, !.device = m.device,
                !.nests = m.nests, !.alphas = m.alphas]
    IN  [h EXCEPT ![src].boosters = PyList(EnumFilter(m.boosters.items, 0))] \o <<a, s>>
SplitHeap(h, src) ==
    LET m == h[src]
        a == [RUMBoostNew EXCEPT
                !.boosters = PyList(EnumFilter(m.boosters.items, 0)),
                !.rum_structure = PyList(SliceStep2(m.rum_structure.items, 0)),
                !.num_classes = m.num_classes, !.device = m.device,
                !.nests = m.nests, !.alphas = m.alphas]
        s == [RUMBoostNew EXCEPT
                !.boosters = PyList(EnumFilter(m.boosters.items, 1)),
                !.rum_structure = PyList(SliceStep2(m.rum_structure.items, 1)),
                !.num_classes = m.num_classes, !.device = m.device,
                !.nests = m.nests, !.alphas = m.alphas]
    IN  h \o <<a, s>>

\* the pair (attributes_model, socio_economic_model) returned at line 52
SplitRefs(h) == <<Len(h) + 1, Len(h) + 2>>

\* the models split_fe_model may be given
Boosters == {"b1", "b2"}
Descriptors == {"d1", "d2"}
RumStructures ==
    {PyList(s) : s \in SeqsUpTo(Descriptors, MaxLen)}
        \cup {PyTuple(s) : s \in SeqsUpTo(Descriptors, MaxLen)}
        \cup {PyDict(<<>>), PyInt(0), PyNone}
InputModels ==
    [boosters : {PyList(s) : s \in SeqsUpTo(Boosters, MaxLen)},
     rum_structure : RumStructures,
     num_classes : {PyInt(2), PyInt(3)},
     device : {PyStr("cpu")},
     nests : {PyNone, PyDict(<<>>)},
     alphas : {PyNone}]

SplitInit ==
    /\ heap \in {<<m>> : m \in InputModels}
    /\ splitPc = "ready"
    /\ splitRet = <<>>
    /\ splitErr = ""

\* lines 28-31: the rum_structure is not a list
SplitRaise ==
    /\ splitPc = "ready"
    /\ ~IsList(heap[SrcId].rum_structure)
    /\ splitPc' = "raised"
    /\ splitErr' = "ValueError"
    /\ UNCHANGED <<heap, splitRet>>
    /\ UNCHANGED <<bsVars, asVars>>

\* lines 33-52: the rum_structure is a list
SplitReturn ==
    /\ splitPc = "ready"
    /\ IsList(heap[SrcId].rum_structure)
    /\ heap' = SplitHeap(heap, SrcId)
    /\ splitRet' = SplitRefs(heap)
    /\ splitPc' = "returned"
    /\ UNCHANGED splitErr
    /\ UNCHANGED <<bsVars, asVars>>

(* ----------------------------- bootstrap ----------------------------- *)
\* The generator np.random is numpy's legacy RandomState, a Mersenne Twister
\* MT19937.  Its state is <<s, p>>: seeded with s, p 32-bit words given out
\* since.  bootstrap draws from populations of at most 8 labels, which reads
\* the low three bits of a word only.
Threads == {1, 2}
Labels == {0, 1}
Seeds == 0..MaxSeed

\* the low three bits of the first 64 words of MT19937 after
\* np.random.seed(s), for s = 0, 1, 2, 3 (row s + 1)
MTLow3 ==
    <<
    <<4, 7, 5, 0, 3, 3, 3, 7, 1, 3, 5, 2, 4, 7, 6, 0,
      0, 4, 2, 1, 6, 7, 7, 6, 0, 1, 5, 1, 5, 0, 1, 4,
      3, 0, 3, 5, 6, 7, 7, 0, 2, 3, 0, 1, 3, 5, 3, 3,
      6, 7, 0, 1, 1, 1, 7, 0, 7, 2, 4, 7, 3, 6, 3, 2>>,
    <<5, 3, 4, 0, 7, 1, 3, 5, 7, 0, 0, 1, 4, 7, 5, 4,
      6, 1, 2, 4, 6, 5, 2, 4, 3, 4, 2, 4, 5, 6, 2, 4,
      7, 7, 1, 1, 7, 6, 0, 6, 5, 1, 1, 7, 7, 5, 6, 1,
      1, 0, 4, 1, 0, 0, 5, 3, 7, 2, 1, 0, 6, 7, 3, 6>>,
    <<0, 7, 5, 0, 6, 3, 2, 3, 0, 7, 2, 1, 7, 3, 5, 7,
      7, 7, 2, 4, 4, 4, 5, 7, 3, 6, 4, 2, 3, 3, 7, 6,
      2, 1, 2, 4, 7, 3, 5, 0, 4, 6, 6, 7, 3, 1, 7, 2,
      0, 4, 6, 4, 2, 4, 2, 7, 7, 1, 7, 7, 6, 0, 2, 5>>,
    <<2, 0, 1, 3, 0, 0, 0, 5, 5, 3, 2, 3, 1, 1, 2, 5,
      7, 6, 0, 4, 4, 5, 7, 6, 0, 2, 1, 2, 6, 2, 2, 7,
      4, 1, 3, 2, 5, 0, 6, 1, 5, 2, 0, 3, 6, 7, 0, 3,
      1, 3, 7, 0, 5, 4, 6, 1, 5, 7, 6, 4, 4, 7, 6, 0>>
    >>

\* the generator states other code of the process may have left
RngStates == {<<s, p>> : s \in Seeds, p \in 0..MaxStart}

\* np.random.seed(seed): the generator state is a function of the seed alone;
\* the variant does not seed
SeedRngKeep(g, seed) == g
SeedRng(g, seed) == <<seed, 0>>

\* the state after the generator gave out one more 32-bit word
RngStep(g) == <<g[1], g[2] + 1>>

\* the smallest 2^k - 1 that is >= r, for r in 1..7
Mask(r) == IF r <= 1 THEN 1 ELSE IF r <= 3 THEN 3 ELSE 7

\* the last word given out in state g, masked for a population of n labels
RngOut(g, n) == MTLow3[g[1] + 1][g[2]] % (Mask(n - 1) + 1)

\* randint(0, n) from state g, n >= 1: <<the value, the state afterwards>>.
\* A population of one label takes no word; otherwise words are masked and
\* taken until one is below n.
RECURSIVE RandInt(_, _)
RandInt(g, n) ==
    IF n = 1 THEN <<0, g>>
    ELSE LET g1 == RngStep(g)
             v == RngOut(g1, n)
         IN  IF v < n THEN <<v, g1>> ELSE RandInt(g1, n)

\* np.random.choice(a, size=k, replace=True) from state g:
\* <<the k values drawn, the generator state afterwards>>
RECURSIVE Choice(_, _, _)
Choice(g, a, k) ==
    IF k = 0 THEN <<(<<>>), g>>
    ELSE LET d == RandInt(g, Len(a))
             rest == Choice(d[2], a, k - 1)
         IN  <<(<<a[d[1] + 1]>>) \o rest[1], rest[2]>>

Range(s) == {s[i] : i \in DOMAIN s}

\* a finite set of integers as an increasing sequence
RECURSIVE SortedSeq(_)
SortedSeq(S) ==
    IF S = {} THEN <<>>
    ELSE LET m == CHOOSE x \in S : \A y \in S : x <= y
         IN  <<m>> \o SortedSeq(S \ {m})

\* np.setdiff1d(a, b): the sorted unique values of a that are not in b
SetDiff1d(a, b) == SortedSeq(Range(a) \ Range(b))

\* dataset.loc[ids]: the row positions selected, in order; a label selects
\* every row that carries it
RowsOf(idx, l) == SelectSeq([i \in DOMAIN idx |-> i], LAMBDA i : idx[i] = l)
RECURSIVE Loc(_, _)
Loc(idx, ids) ==
    IF ids = <<>> THEN <<>> ELSE RowsOf(idx, Head(ids)) \o Loc(idx, Tail(ids))

\* the model returned by the k-th rum_train call of an invocation
Trained(t, k) == [by |-> t, call |-> k]

\* models.append(m); the variant is models.insert(0, m)
AppendModelFront(models, m) == <<m>> \o models
AppendModel(models, m) == Append(models, m)

IdleFrame ==
    [pc |-> "idle", seed |-> 0, num_it |-> 0, N |-> 0, it |-> 0,
     ids |-> <<>>, ids2 |-> <<>>, train |-> <<>>, test |-> <<>>,
     models |-> <<>>, calls |-> 0, ret |-> PyNone, err |-> "",
     draws |-> <<>>, overlap |-> FALSE]

InFlight(f) == f.pc \in {"loop", "drawn"}
Finished(f) == f.pc \in {"returned", "raised"}

\* every other invocation in flight is marked as overlapped by a step of t
MarkOverlap(b, t) ==
    LET other == \E u \in Threads \ {t} : InFlight(b[u])
    IN  [u \in Threads |->
            IF u = t THEN [b[u] EXCEPT !.overlap = @ \/ other]
            ELSE IF InFlight(b[u]) THEN [b[u] EXCEPT !.overlap = TRUE]
            ELSE b[u]]

\* lines 81-84: seed the generator, N = dataset.shape[0], models = []
BootstrapCall(t, num_it, seed) ==
    /\ bs[t].pc = "idle"
    /\ rng' = SeedRng(rng, seed)
    /\ bs' = MarkOverlap([bs EXCEPT ![t] =
                [@ EXCEPT !.pc = "loop", !.seed = seed, !.num_it = num_it,
                          !.N = Len(index), !.models = <<>>]], t)
    /\ UNCHANGED index

\* a call made while no other invocation is in flight
SerialCall ==
    \E t \in Threads, k \in 0..MaxIt, seed \in Seeds :
        /\ \A u \in Threads : ~InFlight(bs[u])
        /\ BootstrapCall(t, k, seed)
        /\ UNCHANGED <<splitVars, asVars>>

\* a call made at any time
ConcurrentCall ==
    \E t \in Threads, k \in 0..MaxIt, seed \in Seeds :
        BootstrapCall(t, k, seed) /\ UNCHANGED <<splitVars, asVars>>

\* lines 85-98: the resample, its complement and the two subsets
BootstrapDraw(t) ==
    /\ bs[t].pc = "loop"
    /\ bs[t].it < bs[t].num_it
    /\ LET c == Choice(rng, index, bs[t].N)
           ids == c[1]
           ids2 == SetDiff1d(index, ids)
       IN  /\ rng' = c[2]
           /\ bs' = MarkOverlap([bs EXCEPT ![t] =
                        [@ EXCEPT !.pc = "drawn", !.ids = ids, !.ids2 = ids2,
                                  !.train = Loc(index, ids),
                                  !.test = Loc(index, ids2),
                                  !.draws = Append(@, ids)]], t)
    /\ UNCHANGED index

\* lines 100-102: rum_train returns a model, which is appended; rum_train is
\* an external call, taken not to use np.random
BootstrapTrain(t) ==
    /\ bs[t].pc = "drawn"
    /\ bs' = MarkOverlap([bs EXCEPT ![t] =
                [@ EXCEPT !.pc = "loop", !.it = @ + 1, !.calls = @ + 1,
                          !.models = AppendModel(@, Trained(t, bs[t].calls + 1))]], t)
    /\ UNCHANGED <<rng, index>>

\* an exception raised by rum_train leaves bootstrap: there is no handler;
\* the variant is a handler that goes on with the next iteration
OnTrainErrorSwallow(f) == [f EXCEPT !.pc = "loop", !.it = @ + 1]
OnTrainError(f) == [f EXCEPT !.pc = "raised", !.err = "TrainError"]

\* lines 100-102: rum_train raises
BootstrapTrainFail(t) ==
    /\ bs[t].pc = "drawn"
    /\ bs' = MarkOverlap([bs EXCEPT ![t] =
                OnTrainError([@ EXCEPT !.calls = @ + 1])], t)
    /\ UNCHANGED <<rng, index>>

\* line 104: the loop is over, the list is returned
BootstrapReturn(t) ==
    /\ bs[t].pc = "loop"
    /\ bs[t].it >= bs[t].num_it
    /\ bs' = MarkOverlap([bs EXCEPT ![t] =
                [@ EXCEPT !.pc = "returned", !.ret = PyList(bs[t].models)]], t)
    /\ UNCHANGED <<rng, index>>

\* other code of the process uses np.random between two invocations
Perturb ==
    /\ \A u \in Threads : ~InFlight(bs[u])
    /\ \E g \in RngStates : g # rng /\ rng' = g
    /\ UNCHANGED <<index, bs>>
    /\ UNCHANGED <<splitVars, asVars>>

Draw == \E t \in Threads : BootstrapDraw(t) /\ UNCHANGED <<splitVars, asVars>>
Train == \E t \in Threads : BootstrapTrain(t) /\ UNCHANGED <<splitVars, asVars>>
TrainFail == \E t \in Threads : BootstrapTrainFail(t) /\ UNCHANGED <<splitVars, asVars>>
Return == \E t \in Threads : BootstrapReturn(t) /\ UNCHANGED <<splitVars, asVars>>

BsIdle ==
    /\ rng = <<0, 0>>
    /\ index = <<>>
    /\ bs = [t \in Threads |-> IdleFrame]

BsInit ==
    /\ rng \in RngStates
    /\ index \in SeqsUpTo(Labels, MaxRows)
    /\ bs = [t \in Threads |-> IdleFrame]

SplitIdle ==
    /\ heap = <<>>
    /\ splitPc = "idle"
    /\ splitRet = <<>>
    /\ splitErr = ""

(* ------------------------- assist_model_spec ------------------------- *)
\* str(n) for n >= 0, as an f-string formats it
Digit(d) == <<"0", "1", "2", "3", "4", "5", "6", "7", "8", "9">>[d + 1]
RECURSIVE IntToStr(_)
IntToStr(n) == IF n < 10 THEN Digit(n) ELSE IntToStr(n \div 10) \o Digit(n % 10)

\* f"asc_{i}"
AscName(i) == "asc_" \o IntToStr(i)

\* Beta(name, value, lowerbound, upperbound, status)
Beta(name, value, lower, upper, status) ==
    [name |-> name, value |-> value, lower |-> lower, upper |-> upper,
     status |-> status]

\* {f"asc_{i}": Beta(f"asc_{i}", 0, None, None, 0) for i in range(i0, n)}
RECURSIVE AscsRange(_, _)
AscsRange(i0, n) ==
    IF i0 >= n THEN <<>>
    ELSE LET rest == AscsRange(i0 + 1, n)
             k == AscName(i0)
             v == Beta(AscName(i0), PyInt(0), PyNone, PyNone, PyInt(0))
         IN  [x \in {k} \cup DOMAIN rest |-> IF x \in DOMAIN rest THEN rest[x] ELSE v]

\* line 121: range(model.num_classes - 1); the variant is range(model.num_classes)
AscsAll(c) == AscsRange(0, c)
Ascs(c) == AscsRange(0, c - 1)

\* the (i, name) pairs the loops of lines 124-125 go through, as the sequence
\* of the 0-based utility indices int(i); w[i + 1] is the number of names of
\* utility i
RECURSIVE LoopKeys(_, _)
LoopKeys(w, i) ==
    IF i >= Len(w) THEN <<>>
    ELSE [k \in 1..w[i + 1] |-> i] \o LoopKeys(w, i + 1)

AssistModels ==
    UNION {[num_classes : 0..MaxClasses,
            weights : [1..n -> 0..MaxFeat],
            boost_from_parameter_space : [1..n -> BOOLEAN]] : n \in 0..MaxUtil}

AsIdle ==
    /\ asModel = [num_classes |-> 0, weights |-> <<>>,
                  boost_from_parameter_space |-> <<>>]
    /\ asPc = "idle"
    /\ ascs = <<>>
    /\ asPos = 0
    /\ asRet = PyNone

AsInit ==
    /\ asModel \in AssistModels
    /\ asPc = "ready"
    /\ ascs = <<>>
    /\ asPos = 0
    /\ asRet = PyNone

\* lines 121-122: the placeholders and the weights
AssistBuild ==
    /\ asPc = "ready"
    /\ ascs' = Ascs(asModel.num_classes)
    /\ asPc' = "loop"
    /\ UNCHANGED <<asModel, asPos, asRet>>
    /\ UNCHANGED <<splitVars, bsVars>>

\* lines 126-127: an iteration whose utility is boosted from the parameter space
AssistIterParam ==
    /\ asPc = "loop"
    /\ asPos < Len(LoopKeys(asModel.weights, 0))
    /\ asModel.boost_from_parameter_space[LoopKeys(asModel.weights, 0)[asPos + 1] + 1]
    /\ asPos' = asPos + 1
    /\ UNCHANGED <<asModel, asPc, ascs, asRet>>
    /\ UNCHANGED <<splitVars, bsVars>>

\* lines 128-129: an iteration whose utility is not
AssistIterTree ==
    /\ asPc = "loop"
    /\ asPos < Len(LoopKeys(asModel.weights, 0))
    /\ ~asModel.boost_from_parameter_space[LoopKeys(asModel.weights, 0)[asPos + 1] + 1]
    /\ asPos' = asPos + 1
    /\ UNCHANGED <<asModel, asPc, ascs, asRet>>
    /\ UNCHANGED <<splitVars, bsVars>>

\* the value a call returns once the loops of lines 124-129 are over: the
\* function ends there without a return statement
AssistResult(d) == PyNone

\* after line 129: the function ends
AssistEnd ==
    /\ asPc = "loop"
    /\ asPos >= Len(LoopKeys(asModel.weights, 0))
    /\ asRet' = AssistResult(ascs)
    /\ asPc' = "done"
    /\ UNCHANGED <<asModel, ascs, asPos>>
    /\ UNCHANGED <<splitVars, bsVars>>

(* -------------------------- specifications -------------------------- *)
\* split_fe_model called once on a model
Init == SplitInit /\ BsIdle /\ AsIdle
Next == SplitRaise \/ SplitReturn
Spec == Init /\ [][Next]_vars

\* bootstrap invocations that run one after the other
InitBootstrap == BsInit /\ SplitIdle /\ AsIdle
NextBootstrap == SerialCall \/ Draw \/ Train \/ TrainFail \/ Return \/ Perturb
SpecBootstrap == InitBootstrap /\ [][NextBootstrap]_vars

\* bootstrap invocations of two threads, interleaved call by call
NextConcurrent == ConcurrentCall \/ Draw \/ Train \/ TrainFail \/ Return
SpecConcurrent == InitBootstrap /\ [][NextConcurrent]_vars

\* assist_model_spec called once on a model
InitAssist == AsInit /\ SplitIdle /\ BsIdle
NextAssist == AssistBuild \/ AssistIterParam \/ AssistIterTree \/ AssistEnd
SpecAssist == InitAssist /\ [][NextAssist]_vars

(* ------------------------------ claims ------------------------------- *)
\* x[1], y[1], x[2], y[2], ...: two sequences of one length, interleaved
Interleave(x, y) ==
    [k \in 1..(2 * Len(x)) |-> IF k % 2 = 1 THEN x[(k + 1) \div 2] ELSE y[k \div 2]]

\* C1: when the model's rum_structure and boosters are lists of the same even
\* length 2n, each returned model has n boosters and n descriptors, those of
\* attributes_model are the source's at 0-based positions 2i and those of
\* socio_economic_model the source's at 2i+1, and interleaving the two
\* results gives back the source lists.
C1_SplitEvenOdd ==
    splitPc = "returned" =>
        LET B == heap[SrcId].boosters.items
            R == heap[SrcId].rum_structure.items
            a == heap[splitRet[1]]
            s == heap[splitRet[2]]
            n == Len(R) \div 2
        IN  (Len(R) % 2 = 0 /\ Len(B) = Len(R)) =>
                /\ a.boosters.kind = "list" /\ a.rum_structure.kind = "list"
                /\ s.boosters.kind = "list" /\ s.rum_structure.kind = "list"
                /\ Len(a.boosters.items) = n /\ Len(a.rum_structure.items) = n
                /\ Len(s.boosters.items) = n /\ Len(s.rum_structure.items) = n
                /\ \A i \in 0..(n - 1) :
                    /\ a.boosters.items[i + 1] = B[2 * i + 1]
                    /\ a.rum_structure.items[i + 1] = R[2 * i + 1]
                    /\ s.boosters.items[i + 1] = B[2 * i + 2]
                    /\ s.rum_structure.items[i + 1] = R[2 * i + 2]
                /\ Interleave(a.boosters.items, s.boosters.items) = B
                /\ Interleave(a.rum_structure.items, s.rum_structure.items) = R

\* a model of 4 boosters and 4 descriptors, not all alike, has been split
C1_Witness ==
    /\ splitPc = "returned"
    /\ Len(heap[SrcId].boosters.items) = 4
    /\ Len(heap[SrcId].rum_structure.items) = 4
    /\ heap[SrcId].boosters.items[1] # heap[SrcId].boosters.items[2]
    /\ heap[SrcId].rum_structure.items[2] # heap[SrcId].rum_structure.items[3]

\* C6: a finished call has raised ValueError exactly when the rum_structure
\* is not a list; when it raised, no model was created and none returned;
\* every list, whatever its length, is accepted.
C6_ValueErrorIffNotList ==
    splitPc # "ready" =>
        /\ (splitPc = "raised") <=> (heap[SrcId].rum_structure.kind # "list")
        /\ splitPc = "raised" =>
              splitErr = "ValueError" /\ splitRet = <<>> /\ Len(heap) = 1
        /\ splitPc = "returned" => splitErr = "" /\ Len(splitRet) = 2

\* a call given a tuple as rum_structure has raised
C6_Witness ==
    /\ splitPc = "raised"
    /\ heap[SrcId].rum_structure.kind = "tuple"
    /\ Len(heap[SrcId].rum_structure.items) = 2

\* C7: no step of split_fe_model changes a field of the source model, and
\* the two models returned are objects created by the call, distinct from
\* the source and from each other.
C7_SourceUntouched ==
    [][/\ heap'[SrcId] = heap[SrcId]
       /\ splitPc' = "returned" =>
            /\ Cardinality({SrcId, splitRet'[1], splitRet'[2]}) = 3
            /\ {splitRet'[1], splitRet'[2]} \subseteq (DOMAIN heap') \ (DOMAIN heap)]_vars

\* a model with at least 3 boosters has been split
C7_Witness ==
    /\ splitPc = "returned"
    /\ Len(heap[SrcId].boosters.items) >= 3
    /\ Len(heap) = 3

\* C2: an invocation that returned delivers a list of exactly num_it models,
\* rum_train was called exactly num_it times, and the j-th element is the
\* model the j-th call returned.
C2_ReturnsAllModels ==
    \A t \in Threads :
        bs[t].pc = "returned" =>
            /\ bs[t].ret.kind = "list"
            /\ Len(bs[t].ret.items) = bs[t].num_it
            /\ bs[t].calls = bs[t].num_it
            /\ \A j \in 1..bs[t].num_it : bs[t].ret.items[j] = Trained(t, j)

\* an invocation with num_it = 2 on a dataset that has rows has returned
C2_Witness ==
    \E t \in Threads :
        bs[t].pc = "returned" /\ bs[t].num_it = 2 /\ bs[t].N > 0

\* s and u agree wherever both are defined
AgreeOnPrefix(s, u) ==
    \A j \in 1..(IF Len(s) < Len(u) THEN Len(s) ELSE Len(u)) : s[j] = u[j]

\* C3: two invocations with the same dataset, seed and num_it, run one after
\* the other from any generator state, draw the same resamples iteration by
\* iteration; when both returned the two sequences of resamples are equal.
C3_SameSeedSameDraws ==
    \A t, u \in Threads :
        (bs[t].pc # "idle" /\ bs[u].pc # "idle"
            /\ bs[t].seed = bs[u].seed /\ bs[t].num_it = bs[u].num_it) =>
            /\ AgreeOnPrefix(bs[t].draws, bs[u].draws)
            /\ (bs[t].pc = "returned" /\ bs[u].pc = "returned") =>
                    bs[t].draws = bs[u].draws

\* two invocations with one seed and num_it = 2 on a dataset of two rows
\* have both returned, and the two resamples of an invocation differ
C3_Witness ==
    /\ bs[1].pc = "returned" /\ bs[2].pc = "returned"
    /\ bs[1].seed = bs[2].seed
    /\ bs[1].num_it = 2 /\ bs[2].num_it = 2
    /\ Len(index) = 2
    /\ bs[1].draws[1] # bs[1].draws[2]

\* C4: in every iteration the training subset has as many rows as the
\* dataset, and a row identifier of the dataset is in the held-out set
\* exactly when the resample did not draw it.
C4_ResampleSizeAndComplement ==
    \A t \in Threads :
        bs[t].pc = "drawn" =>
            /\ Len(bs[t].train) = Len(index)
            /\ \A r \in Range(index) :
                  (r \in Range(bs[t].ids2)) <=> (r \notin Range(bs[t].ids))

\* C5: a rum_train call that fails makes the invocation raise; an invocation
\* that raised on iteration k made k calls of rum_train, k <= num_it, has
\* delivered nothing although k-1 models were trained, and takes no further
\* step.
C5_TrainErrorPropagates ==
    [][\A t \in Threads :
        /\ (bs'[t].calls > bs[t].calls /\ bs'[t].models = bs[t].models) =>
              bs'[t].pc = "raised"
        /\ bs'[t].pc = "raised" =>
              /\ bs'[t].ret = PyNone
              /\ bs'[t].err = "TrainError"
              /\ bs'[t].calls = bs'[t].it + 1
              /\ bs'[t].calls <= bs'[t].num_it
              /\ Len(bs'[t].models) = bs'[t].calls - 1
        /\ bs[t].pc = "raised" => bs'[t] = bs[t]]_vars

\* the second rum_train call of an invocation with num_it = 2 has failed
C5_Witness ==
    \E t \in Threads :
        /\ bs[t].pc = "raised"
        /\ bs[t].num_it = 2
        /\ bs[t].calls = 2
        /\ Len(bs[t].models) = 1

\* the resamples of the first k iterations of an invocation that runs alone
RECURSIVE DrawsFrom(_, _, _)
DrawsFrom(g, idx, k) ==
    IF k = 0 THEN <<>>
    ELSE LET c == Choice(g, idx, Len(idx))
         IN  <<c[1]>> \o DrawsFrom(c[2], idx, k - 1)
RunAlone(seed, idx, k) == DrawsFrom(SeedRng(<<0, 0>>, seed), idx, k)

\* C8: an invocation during which no other invocation took a step has drawn
\* the resamples it draws when run alone with its seed and inputs.  (That an
\* interleaved invocation can draw others is the state of C8_Witness.)
C8_SerializedRunsAlone ==
    \A t \in Threads :
        (Finished(bs[t]) /\ ~bs[t].overlap) =>
            bs[t].draws = RunAlone(bs[t].seed, index, Len(bs[t].draws))

\* an invocation interleaved with another one has returned with resamples
\* that are not those of its run alone
C8_Witness ==
    \E t \in Threads :
        /\ bs[t].pc = "returned"
        /\ bs[t].overlap
        /\ bs[t].num_it = 2
        /\ bs[t].draws # RunAlone(bs[t].seed, index, bs[t].num_it)

\* the names asc_0, asc_1, ...
AscNames ==
    <<"asc_0", "asc_1", "asc_2", "asc_3", "asc_4", "asc_5", "asc_6", "asc_7",
      "asc_8", "asc_9", "asc_10", "asc_11", "asc_12", "asc_13", "asc_14">>

\* C9: for num_classes = c >= 1 the dictionary built has exactly c - 1
\* entries, with keys asc_0 .. asc_{c-2}, each a parameter of that name with
\* value 0, no lower and no upper bound.
C9_AscPlaceholders ==
    (asPc \in {"loop", "done"} /\ asModel.num_classes >= 1) =>
        /\ Cardinality(DOMAIN ascs) = asModel.num_classes - 1
        /\ \A i \in 0..(asModel.num_classes - 2) :
            /\ AscNames[i + 1] \in DOMAIN ascs
            /\ ascs[AscNames[i + 1]].name = AscNames[i + 1]
            /\ ascs[AscNames[i + 1]].value = PyInt(0)
            /\ ascs[AscNames[i + 1]].lower = PyNone
            /\ ascs[AscNames[i + 1]].upper = PyNone

\* the placeholders of a model with 12 classes have been built
C9_Witness ==
    /\ asPc = "loop"
    /\ asModel.num_classes = 12
    /\ "asc_10" \in DOMAIN ascs

\* C10: a completed call of assist_model_spec returns a dictionary.
C10_ReturnsDict ==
    asPc = "done" => asRet.kind = "dict"
====
